---- MODULE Spec2Model ----
(***************************************************************************)
(* Model of the StatCan namespace-controller: the three sub-commands       *)
(* (finance, network, label), each of which builds a namespace controller  *)
(* around a sync callback, waits for its informer caches and runs two      *)
(* workers on a shared, deduplicating work queue.                          *)
(*                                                                         *)
(* The sync callbacks, the event handlers, the cache-sync wait and the     *)
(* policy synthesis are translated from src/cmd/finance.go and             *)
(* src/cmd/network.go.  The controller itself (pkg/controllers/namespaces: *)
(* the work queue, the worker loop and Run) is not part of the sources at  *)
(* hand; it is modelled from section 4.1 and 5 of the specification.       *)
(***************************************************************************)
EXTENDS Integers, Sequences, FiniteSets, TLC

VARIABLES
    cmd,        \* the sub-command this process runs: "finance", "network" or "label"
    phase,      \* position of cmd.Run: "waiting", "started", "running", "returned", "fatal", "crashed"
    stopCh,     \* TRUE once the shutdown signal closed the stop channel
    synced,     \* resource kinds whose informer completed its initial list
    loopVar,    \* how the build scopes a range variable: "per-loop" or "per-iteration"
    nsLabels,   \* namespace name -> label map of the namespace object
    nsUID,      \* namespace name -> UID of the namespace object
    depCache,   \* pod / PVC name -> label map of the object held in the informer cache
    depApi,     \* pod / PVC name -> label map of the object stored by the API server
    polCache,   \* <<namespace, policy name>> -> network policy spec in the informer cache
    polApi,     \* <<namespace, policy name>> -> network policy spec stored by the API server
    endpoints,  \* the "kubernetes" Endpoints object of namespace default (or absent)
    queue,      \* pending part of the work queue, FIFO
    marked,     \* keys enqueued while processing: one more pass after completion
    delayed,    \* keys waiting for their backoff delay before being re-added
    requeues,   \* key -> number of rate-limited requeues since the last Forget
    worker,     \* worker -> [pc, key, err, calls, lerr]: position, key held, outcome of the pass
    enqCalls    \* key -> enqueue calls received since the key was last dequeued

vars == <<cmd, loopVar, phase, stopCh, synced, nsLabels, nsUID, depCache, depApi, polCache, polApi,
          endpoints, queue, marked, delayed, requeues, worker, enqCalls>>

-----------------------------------------------------------------------------
(* Bounds of the model *)

\* saturation point of the requeue counter that drives the backoff delay
MaxRequeues == 1

\* saturation point of the enqueue-call counters
MaxEnq == 2

-----------------------------------------------------------------------------
(* Program constants *)

\* controller.Run(2, stopCh)
WorkerCount == 2

Workers == 1..WorkerCount

Cmds == {"finance", "network", "label"}

CPKey == "control-plane"

FinKey == "finance.statcan.gc.ca/workload-id"

WidKey == "workload-id"

PurposeKey == "namespace.statcan.gc.ca/purpose"

AllowSameNsKey == "network.statcan.gc.ca/allow-same-ns"

AllowIngressKey == "network.statcan.gc.ca/allow-ingress-controller"

-----------------------------------------------------------------------------
(* Go maps of strings.  A label map is a function from keys to values; the   *)
(* nil map (an object without any label) is kept apart from the empty map:  *)
(* reading it yields "", writing it panics.                                 *)

NilKey == "<nil>"

NilLabels == (NilKey :> "")

EmptyLabels == [x \in {} |-> ""]

IsNilMap(m) == DOMAIN m = {NilKey}

\* _, ok := m[k]
Has(m, k) == k # NilKey /\ k \in DOMAIN m

\* m[k], "" when the key is missing
Lbl(m, k) == IF Has(m, k) THEN m[k] ELSE ""

\* m[k] = v on a non-nil map
Put(m, k, v) == [x \in DOMAIN m \cup {k} |-> IF x = k THEN v ELSE m[x]]

-----------------------------------------------------------------------------
(* General helpers *)

Range(s) == {s[i] : i \in DOMAIN s}

Count(s, x) == Cardinality({i \in DOMAIN s : s[i] = x})

\* all orders in which a lister may return the objects of S
Perms(S) == {s \in [1..Cardinality(S) -> S] : Range(s) = S}

Min(a, b) == IF a < b THEN a ELSE b

-----------------------------------------------------------------------------
(* The cluster objects of the model *)

\* namespace keys
Keys == {"n1", "n2"}

Pods == {"p1", "p2"}

Pvcs == {"c1", "c2"}

Deps == Pods \cup Pvcs

\* the namespace each dependent lives in (pod.Namespace, pvc.Namespace)
DepNs == [d \in Deps |-> IF d \in {"p1", "p2", "c1"} THEN "n1" ELSE "n2"]

\* podLister.Pods(namespace.Name).List(labels.Everything()): the cached pods of
\* one namespace; an informer that has not synced yet shows nothing
ListPods(name) == IF "pods" \in synced THEN {p \in Pods : DepNs[p] = name} ELSE {}

\* pvcLister.List(labels.Everything()): the cached PVCs of every namespace
ListPvcs(name) == IF "pvcs" \in synced THEN Pvcs ELSE {}

-----------------------------------------------------------------------------
(* Label propagation: the sync callbacks of financeCmd and labelCmd.         *)
(* A pass is folded over the listed objects; st = [cache, api, calls, out,   *)
(* lerr] carries the informer cache, the API server's objects, the API calls *)
(* issued so far, the state of the pass ("run", "err" or "panic") and the    *)
(* List call that failed, if one did.                                        *)
(* failAt is the number of the API call that fails (0: none fails).          *)

\* existingLabels[k] = v; obj.SetLabels(existingLabels); Update(obj); the map
\* written is the cached object's own map, the object sent is the cached object
WriteAndUpdateGoesOn(d, v, st, failAt) ==
    LET ok == (Len(st.calls) + 1) # failAt
    IN  [st EXCEPT !.cache = [st.cache EXCEPT ![d] = Put(st.cache[d], FinKey, v)],
                   !.api   = IF ok THEN [st.api EXCEPT ![d] = Put(st.cache[d], FinKey, v)]
                             ELSE st.api,
                   !.calls = Append(st.calls,
                                    [op |-> "update", obj |-> d, val |-> v, ok |-> ok])]

WriteAndUpdate(d, v, st, failAt) ==
    IF IsNilMap(st.cache[d])
    THEN [st EXCEPT !.out = "panic"]
    ELSE LET newl == Put(st.cache[d], FinKey, v)
             ok   == (Len(st.calls) + 1) # failAt
         IN  [st EXCEPT !.cache = [st.cache EXCEPT ![d] = newl],
                        !.api   = IF ok THEN [st.api EXCEPT ![d] = newl] ELSE st.api,
                        !.calls = Append(st.calls,
                                         [op |-> "update", obj |-> d, val |-> v, ok |-> ok]),
                        !.out   = IF ok THEN "run" ELSE "err"]

\* the drift test of the finance loops
FinanceDiffers(existing, ns) == Lbl(existing, FinKey) # Lbl(ns, WidKey)

\* the value written onto the dependent
PropagatedValue(ns) == Lbl(ns, WidKey)

\* body of the pod loop and of the PVC loop of financeCmd
FinanceVisit(d, ns, st, failAt) ==
    IF FinanceDiffers(st.cache[d], ns)
    THEN WriteAndUpdate(d, PropagatedValue(ns), st, failAt)
    ELSE st

\* body of the pod loop and of the PVC loop of labelCmd: no drift test
LabelVisit(d, ns, st, failAt) == WriteAndUpdate(d, PropagatedValue(ns), st, failAt)

RECURSIVE FinanceLoop(_, _, _, _)
FinanceLoop(items, ns, st, failAt) ==
    IF items = <<>> \/ st.out # "run"
    THEN st
    ELSE FinanceLoop(Tail(items), ns, FinanceVisit(Head(items), ns, st, failAt), failAt)

RECURSIVE LabelLoop(_, _, _, _)
LabelLoop(items, ns, st, failAt) ==
    IF items = <<>> \/ st.out # "run"
    THEN st
    ELSE LabelLoop(Tail(items), ns, LabelVisit(Head(items), ns, st, failAt), failAt)

FinanceSkipNever(ns) == FALSE

\* if _, ok := namespace.ObjectMeta.Labels["control-plane"]; ok { return nil }
FinanceSkip(ns) == Has(ns, CPKey)

LabelSkip(ns) == Has(ns, CPKey)

\* what a pass returns: "nil", "err", or "panic" when it did not return
Finished(st) == [st EXCEPT !.out = IF st.out = "run" THEN "nil" ELSE st.out]

\* klog.Infof("failed to list ..."); return nil
ListFailed(st, which) == [st EXCEPT !.out = "nil", !.lerr = which]

\* the sync callback of financeCmd.  pods and pvcs are the listed objects in
\* the order the listers returned them; listErr names the List call that fails
FinanceSync(ns, pods, pvcs, listErr, failAt, st0) ==
    IF FinanceSkip(ns) THEN Finished(st0)
    ELSE IF ~Has(ns, FinKey) THEN Finished(st0)
    ELSE IF listErr = "pods" THEN ListFailed(st0, "pods")
    ELSE LET st1 == FinanceLoop(pods, ns, st0, failAt)
         IN  IF st1.out # "run" THEN st1
             ELSE IF listErr = "pvcs" THEN ListFailed(st1, "pvcs")
             ELSE Finished(FinanceLoop(pvcs, ns, st1, failAt))

\* the sync callback of labelCmd
LabelSync(ns, pods, pvcs, listErr, failAt, st0) ==
    IF LabelSkip(ns) THEN Finished(st0)
    ELSE IF ~Has(ns, FinKey) THEN Finished(st0)
    ELSE IF listErr = "pods" THEN ListFailed(st0, "pods")
    ELSE LET st1 == LabelLoop(pods, ns, st0, failAt)
         IN  IF st1.out # "run" THEN st1
             ELSE IF listErr = "pvcs" THEN ListFailed(st1, "pvcs")
             ELSE Finished(LabelLoop(pvcs, ns, st1, failAt))

-----------------------------------------------------------------------------
(* Network policies.  A Go slice is [isnil, e]: reflect.DeepEqual tells a nil *)
(* slice from an empty one, and the API server stores an empty slice as an   *)
(* absent field, which reads back as nil.  A pointer field is a set with at  *)
(* most one element.                                                         *)

NilSlice == [isnil |-> TRUE, e |-> <<>>]

Slice(seq) == [isnil |-> FALSE, e |-> seq]

\* metav1.LabelSelector{}
EmptySelector == [matchLabels |-> {}, matchExpressions |-> <<>>]

MatchLabels(pairs) == [matchLabels |-> pairs, matchExpressions |-> <<>>]

MatchIn(key, values) ==
    [matchLabels |-> {}, matchExpressions |-> <<[key |-> key, operator |-> "In", values |-> values]>>]

Peer(nsSel, podSel, ipBlock) ==
    [namespaceSelector |-> nsSel, podSelector |-> podSel, ipBlock |-> ipBlock]

IstioSystemNs ==
    MatchLabels({<<"install.operator.istio.io/owner-name", "istio">>,
                 <<"namespace.statcan.gc.ca/purpose", "system">>})

\* strconv.ParseBool: [ok, val]
ParseBool(str) ==
    IF str \in {"1", "t", "T", "TRUE", "true", "True"} THEN [ok |-> TRUE, val |-> TRUE]
    ELSE IF str \in {"0", "f", "F", "FALSE", "false", "False"} THEN [ok |-> TRUE, val |-> FALSE]
    ELSE [ok |-> FALSE, val |-> FALSE]

\* net.ParseIP followed by ip.String(), on the address literals of the model:
\* [ok, v4, text]; an IPv4-mapped IPv6 literal is an IPv4 address, and the
\* text printed is the canonical one, not the literal that was parsed
ParseIP(str) ==
    CASE str = "10.0.0.5"        -> [ok |-> TRUE, v4 |-> TRUE, text |-> "10.0.0.5"]
      [] str = "::ffff:10.0.0.6" -> [ok |-> TRUE, v4 |-> TRUE, text |-> "10.0.0.6"]
      [] str = "fd00::1"         -> [ok |-> TRUE, v4 |-> FALSE, text |-> "fd00::1"]
      [] str = "FD00:0:0::2"     -> [ok |-> TRUE, v4 |-> FALSE, text |-> "fd00::2"]
      [] OTHER                   -> [ok |-> FALSE, v4 |-> FALSE, text |-> ""]

CidrAlways32(ip) == [cidr |-> ip.text, mask |-> 32]

\* fmt.Sprintf("%s/%d", ip.String(), netmask)
Cidr(ip) == [cidr |-> ip.text, mask |-> IF ip.v4 THEN 32 ELSE 128]

\* isSystem
IsSystem(ns) == Has(ns, PurposeKey) /\ ns[PurposeKey] = "system"

\* allowSameNamespace
AllowSameNamespace(ns) ==
    LET parsed == ParseBool(Lbl(ns, AllowSameNsKey))
    IN  IF IsSystem(ns)
        THEN IF ~Has(ns, AllowSameNsKey) THEN TRUE
             ELSE IF ~parsed.ok THEN FALSE ELSE parsed.val
        ELSE IF ~parsed.ok THEN FALSE ELSE parsed.val

AllowIngressControllerOrSystem(ns) ==
    \/ IsSystem(ns)
    \/ /\ Has(ns, AllowIngressKey)
       /\ ParseBool(ns[AllowIngressKey]).ok
       /\ ParseBool(ns[AllowIngressKey]).val

\* the allow-ingress-controller decision
AllowIngressController(ns) ==
    /\ Has(ns, AllowIngressKey)
    /\ ParseBool(ns[AllowIngressKey]).ok
    /\ ParseBool(ns[AllowIngressKey]).val

NewControllerRefFirstUid(nsName, uid) ==
    [apiVersion |-> "v1", kind |-> "Namespace", name |-> nsName, uid |-> "uid-1",
     controller |-> TRUE, blockOwnerDeletion |-> TRUE]

\* metav1.NewControllerRef(namespace, corev1.SchemeGroupVersion.WithKind("Namespace"))
NewControllerRef(nsName, uid) ==
    [apiVersion |-> "v1", kind |-> "Namespace", name |-> nsName, uid |-> uid,
     controller |-> TRUE, blockOwnerDeletion |-> TRUE]

Policy(name, nsName, uid, spec) ==
    [name |-> name, namespace |-> nsName, owner |-> NewControllerRef(nsName, uid), spec |-> spec]

BothTypes == <<"Ingress", "Egress">>

DefaultDeny(nsName, uid) ==
    Policy("default-deny", nsName, uid,
           [podSelector |-> EmptySelector, policyTypes |-> BothTypes,
            ingress |-> NilSlice, egress |-> NilSlice])

AllowSameNamespacePolicy(nsName, uid) ==
    Policy("allow-same-namespace", nsName, uid,
           [podSelector |-> EmptySelector, policyTypes |-> BothTypes,
            ingress |-> Slice(<<[from |-> Slice(<<Peer({}, {EmptySelector}, {})>>),
                                 ports |-> NilSlice]>>),
            egress  |-> Slice(<<[to |-> Slice(<<Peer({}, {EmptySelector}, {})>>),
                                 ports |-> NilSlice]>>)])

AllowIngressControllerPolicy(nsName, uid) ==
    Policy("default-allow-ingress-controller", nsName, uid,
           [podSelector |-> EmptySelector, policyTypes |-> <<"Ingress">>,
            ingress |-> Slice(<<[from |-> Slice(<<Peer({IstioSystemNs},
                                     {MatchLabels({<<"istio", "ingressgateway">>})}, {})>>),
                                 ports |-> NilSlice]>>),
            egress  |-> NilSlice])

DnsPort == 53

AllowCoreSystemPolicy(nsName, uid) ==
    LET pilot == Peer({IstioSystemNs}, {MatchIn("istio", <<"pilot">>)}, {})
        mixer == Peer({IstioSystemNs}, {MatchIn("istio", <<"mixer">>)}, {})
        dns   == Peer({MatchLabels({<<"kubernetes.io/cluster-service", "true">>})},
                      {MatchLabels({<<"k8s-app", "kube-dns">>})}, {})
    IN  Policy("default-allow-core-system", nsName, uid,
           [podSelector |-> EmptySelector, policyTypes |-> BothTypes,
            ingress |-> Slice(<<[from |-> Slice(<<pilot>>), ports |-> NilSlice]>>),
            egress  |-> Slice(<<[to |-> Slice(<<dns>>),
                                 ports |-> Slice(<<[protocol |-> "UDP", port |-> DnsPort],
                                                   [protocol |-> "TCP", port |-> DnsPort]>>)],
                                [to |-> Slice(<<pilot>>), ports |-> NilSlice],
                                [to |-> Slice(<<mixer>>), ports |-> NilSlice]>>)])

\* the peers of one subset: one IP block per address that parses
RECURSIVE SubsetPeers(_)
SubsetPeers(addresses) ==
    IF addresses = <<>> THEN <<>>
    ELSE LET ip == ParseIP(Head(addresses))
         IN  IF ip.ok
             THEN <<Peer({}, {}, {Cidr(ip)})>> \o SubsetPeers(Tail(addresses))
             ELSE SubsetPeers(Tail(addresses))

\* Protocol: &port.Protocol takes the address of the range variable.  Where
\* the loop has one variable for all its iterations, every entry points at it
\* and reads the protocol of the last port once the loop is over; where each
\* iteration has its own, every entry keeps the protocol of its port
SubsetPorts(ports) ==
    [i \in 1..Len(ports) |->
        [protocol |-> IF loopVar = "per-loop" THEN ports[Len(ports)].protocol
                      ELSE ports[i].protocol,
         port |-> ports[i].port]]

\* the egress rule built for one endpoint subset
EgressRule(subset) ==
    [to |-> Slice(SubsetPeers(subset.addresses)), ports |-> Slice(SubsetPorts(subset.ports))]

ApiServerPolicy(ns, nsName, uid, subsets) ==
    LET rules == [i \in 1..Len(subsets) |-> EgressRule(subsets[i])]
    IN  IF IsSystem(ns)
        THEN Policy("allow-kube-apiserver", nsName, uid,
                    [podSelector |-> EmptySelector, policyTypes |-> <<"Egress">>,
                     ingress |-> NilSlice, egress |-> Slice(rules)])
        ELSE Policy("optional-allow-kube-apiserver", nsName, uid,
                    [podSelector |-> MatchLabels({<<"network.statcan.gc.ca/allow-kube-apiserver", "true">>}),
                     policyTypes |-> <<"Egress">>,
                     ingress |-> NilSlice, egress |-> Slice(rules)])

generateNetworkPoliciesCoreFirst(ns, nsName, uid, subsets) ==
    <<DefaultDeny(nsName, uid)>>
    \o (IF AllowSameNamespace(ns) THEN <<AllowSameNamespacePolicy(nsName, uid)>> ELSE <<>>)
    \o <<AllowCoreSystemPolicy(nsName, uid)>>
    \o (IF AllowIngressController(ns) THEN <<AllowIngressControllerPolicy(nsName, uid)>> ELSE <<>>)
    \o <<ApiServerPolicy(ns, nsName, uid, subsets)>>

generateNetworkPolicies(ns, nsName, uid, subsets) ==
    <<DefaultDeny(nsName, uid)>>
    \o (IF AllowSameNamespace(ns) THEN <<AllowSameNamespacePolicy(nsName, uid)>> ELSE <<>>)
    \o (IF AllowIngressController(ns) THEN <<AllowIngressControllerPolicy(nsName, uid)>> ELSE <<>>)
    \o <<AllowCoreSystemPolicy(nsName, uid)>>
    \o <<ApiServerPolicy(ns, nsName, uid, subsets)>>

PolNames == {"default-deny", "allow-same-namespace", "default-allow-ingress-controller",
             "default-allow-core-system", "allow-kube-apiserver",
             "optional-allow-kube-apiserver"}

PolKeys == Keys \X PolNames

\* a slice as the API server stores and returns it: empty is absent, hence nil
StoredSlice(sl) == IF sl.e = <<>> THEN NilSlice ELSE sl

StoredIngressRule(r) == [from |-> StoredSlice(r.from), ports |-> StoredSlice(r.ports)]

StoredEgressRule(r) == [to |-> StoredSlice(r.to), ports |-> StoredSlice(r.ports)]

\* the spec of an object after it went to the API server and came back
StoredSpec(spec) ==
    [podSelector |-> spec.podSelector,
     policyTypes |-> spec.policyTypes,
     ingress |-> StoredSlice([isnil |-> spec.ingress.isnil,
                              e |-> [i \in 1..Len(spec.ingress.e) |-> StoredIngressRule(spec.ingress.e[i])]]),
     egress  |-> StoredSlice([isnil |-> spec.egress.isnil,
                              e |-> [i \in 1..Len(spec.egress.e) |-> StoredEgressRule(spec.egress.e[i])]])]

-----------------------------------------------------------------------------
(* The converger: the sync callback of networkCmd.  st = [cache, api, calls, *)
(* out] as for label propagation, over the network policies.                 *)

\* networkPolicyLister.NetworkPolicies(ns).Get(name): {} is NotFound
GetPolicy(cache, key) == IF "networkpolicies" \in synced THEN cache[key] ELSE {}

\* defaultNsEndpointsLister.Endpoints("default").Get("kubernetes")
GetEndpoints == IF "endpoints" \in synced THEN endpoints ELSE [found |-> FALSE, subsets |-> <<>>]

\* reflect.DeepEqual(policy.Spec, currentPolicy.Spec)
DeepEqual(a, b) == a = b

\* if !DeepEqual { currentPolicy.Spec = policy.Spec; Update(currentPolicy) }
\* cached tells whether currentPolicy is the object of the informer cache (it
\* came from the lister) or the object Create returned
UpdatePolicy(policy, key, cached, st, failAt) ==
    LET ok     == (Len(st.calls) + 1) # failAt
        stored == StoredSpec(policy.spec)
        call   == [op |-> "update", obj |-> key, val |-> policy.spec, ok |-> ok]
    IN  [st EXCEPT !.cache = IF ok THEN [st.cache EXCEPT ![key] = {stored}]
                             ELSE IF cached THEN [st.cache EXCEPT ![key] = {policy.spec}]
                             ELSE st.cache,
                   !.api   = IF ok THEN [st.api EXCEPT ![key] = {stored}] ELSE st.api,
                   !.calls = Append(st.calls, call),
                   !.out   = IF ok THEN "run" ELSE "err"]

\* body of the loop over the desired policies
NetworkVisit(policy, st, failAt) ==
    LET key   == <<policy.namespace, policy.name>>
        found == GetPolicy(st.cache, key)
    IN  IF found = {}
        THEN LET ok      == (Len(st.calls) + 1) # failAt /\ st.api[key] = {}
                 stored  == StoredSpec(policy.spec)
                 call    == [op |-> "create", obj |-> key, val |-> policy.spec,
                             owner |-> policy.owner, ok |-> ok]
                 created == [st EXCEPT !.cache = [st.cache EXCEPT ![key] = {stored}],
                                       !.api   = [st.api EXCEPT ![key] = {stored}],
                                       !.calls = Append(st.calls, call)]
             IN  IF ~ok
                 THEN [st EXCEPT !.calls = Append(st.calls, call), !.out = "err"]
                 ELSE IF ~DeepEqual(policy.spec, stored)
                      THEN UpdatePolicy(policy, key, FALSE, created, failAt)
                      ELSE created
        ELSE LET current == CHOOSE c \in found : TRUE
             IN  IF ~DeepEqual(policy.spec, current)
                 THEN UpdatePolicy(policy, key, TRUE, st, failAt)
                 ELSE st

RECURSIVE NetworkLoop(_, _, _)
NetworkLoop(policies, st, failAt) ==
    IF policies = <<>> \/ st.out # "run"
    THEN st
    ELSE NetworkLoop(Tail(policies), NetworkVisit(Head(policies), st, failAt), failAt)

\* if _, ok := namespace.ObjectMeta.Labels["control-plane"]; ok { return nil }
NetworkSkip(ns) == Has(ns, CPKey)

NetworkSyncPrunes(ns, nsName, uid, ep, failAt, st0) ==
    IF NetworkSkip(ns) THEN Finished(st0)
    ELSE IF ~ep.found THEN [st0 EXCEPT !.out = "err"]
    ELSE LET desired == generateNetworkPolicies(ns, nsName, uid, ep.subsets)
             names   == {desired[i].name : i \in 1 .. Len(desired)}
             st1     == NetworkLoop(desired, st0, failAt)
             kept(m) == [key \in PolKeys |->
                            IF key[1] = nsName /\ key[2] \notin names THEN {} ELSE m[key]]
         IN  Finished([st1 EXCEPT !.api = kept(st1.api), !.cache = kept(st1.cache)])

NetworkSyncWithoutEndpoints(ns, nsName, uid, ep, failAt, st0) ==
    IF NetworkSkip(ns) THEN Finished(st0)
    ELSE Finished(NetworkLoop(generateNetworkPolicies(ns, nsName, uid, ep.subsets), st0, failAt))

\* the sync callback of networkCmd
NetworkSync(ns, nsName, uid, ep, failAt, st0) ==
    IF NetworkSkip(ns) THEN Finished(st0)
    ELSE IF ~ep.found THEN [st0 EXCEPT !.out = "err"]
    ELSE Finished(NetworkLoop(generateNetworkPolicies(ns, nsName, uid, ep.subsets), st0, failAt))

-----------------------------------------------------------------------------
(* The work queue of the namespace controller (section 4.1).                 *)
(* q = [queue, marked]; processing is the set of keys held by workers.       *)

Processing == {worker[w].key : w \in {x \in Workers : worker[x].pc # "idle"}}

AddAlways(q, k, processing) == [q EXCEPT !.queue = Append(@, k)]

AddWhileProcessing(q, k, processing) ==
    IF k \in Range(q.queue) THEN q ELSE [q EXCEPT !.queue = Append(@, k)]

\* enqueue(key): no-op if already pending; if the key is processing, mark it
\* for one more pass after completion
Add(q, k, processing) ==
    IF k \in Range(q.queue) \/ k \in q.marked THEN q
    ELSE IF k \in processing THEN [q EXCEPT !.marked = @ \cup {k}]
    ELSE [q EXCEPT !.queue = Append(@, k)]

DoneDropsMark(q, k) == [q EXCEPT !.marked = @ \ {k}]

\* completion of a pass: a marked key becomes pending
Done(q, k) ==
    IF k \in q.marked
    THEN [queue |-> Append(q.queue, k), marked |-> q.marked \ {k}]
    ELSE q

AddRateLimitedDrops(b, k) == [b EXCEPT !.requeues[k] = Min(@ + 1, MaxRequeues)]

\* error: re-enqueue the key after a backoff delay; b = [requeues, delayed]
AddRateLimited(b, k) ==
    [requeues |-> [b.requeues EXCEPT ![k] = Min(@ + 1, MaxRequeues)],
     delayed  |-> b.delayed \cup {k}]

\* nil error: forget the key, reset its backoff
Forget(b, k) == [b EXCEPT !.requeues[k] = 0]

MayDequeueAfterStop == TRUE

\* cancellation stops new dequeues
MayDequeue == ~stopCh

\* no pass is in flight
Drained == \A w \in Workers : worker[w].pc = "idle"

RECURSIVE AddAll(_, _, _)
AddAll(q, ks, processing) ==
    IF ks = <<>> THEN q ELSE AddAll(Add(q, Head(ks), processing), Tail(ks), processing)

Bump(n) == Min(n + 1, MaxEnq)

\* the enqueue-call counter after the calls ks
RECURSIVE Counted(_, _)
Counted(c, ks) ==
    IF ks = <<>> THEN c
    ELSE Counted([c EXCEPT ![Head(ks)] = Bump(@)], Tail(ks))

\* controller.EnqueueNamespace for each key of ks, in order
Enqueue(ks) ==
    LET q == AddAll([queue |-> queue, marked |-> marked], ks, Processing)
    IN  /\ queue' = q.queue
        /\ marked' = q.marked
        /\ enqCalls' = Counted(enqCalls, ks)

-----------------------------------------------------------------------------
(* Initial states: the cluster the process is started against *)

AppOnly == ("app" :> "web")

Labelled(v) == ("app" :> "web" @@ FinKey :> v)

FinLabel(v) == (FinKey :> v)

BothLabels(v) == (FinKey :> v @@ WidKey :> v)

\* namespaces, pods and PVCs the label-propagation commands are started against
FinanceClusters ==
    {\* a workload-id on n1, two dependents without it and one that has it
     [ns   |-> [n1 |-> BothLabels("acme-42"), n2 |-> EmptyLabels],
      deps |-> [p1 |-> AppOnly, p2 |-> AppOnly, c1 |-> Labelled("acme-42"), c2 |-> AppOnly]],
     \* only the qualified workload-id key on n1; a second labelled namespace
     [ns   |-> [n1 |-> FinLabel("acme-42"), n2 |-> BothLabels("w2")],
      deps |-> [p1 |-> Labelled("acme-42"), p2 |-> Labelled("old"), c1 |-> AppOnly, c2 |-> Labelled("w2")]],
     \* n1 is a control-plane namespace
     [ns   |-> [n1 |-> (CPKey :> "" @@ FinKey :> "acme-42" @@ WidKey :> "acme-42"), n2 |-> FinLabel("w2")],
      deps |-> [p1 |-> AppOnly, p2 |-> Labelled("old"), c1 |-> AppOnly, c2 |-> Labelled("old")]],
     \* a pod and a PVC without any label
     [ns   |-> [n1 |-> BothLabels("acme-42"), n2 |-> (CPKey :> "controller-manager")],
      deps |-> [p1 |-> NilLabels, p2 |-> Labelled("acme-42"), c1 |-> Labelled("acme-42"), c2 |-> NilLabels]]}

\* namespaces of the network command
NetworkNamespaces ==
    {[n1 |-> a, n2 |-> EmptyLabels] :
        a \in {(PurposeKey :> "system"),
               (AllowSameNsKey :> "true" @@ AllowIngressKey :> "true"),
               (CPKey :> "" @@ PurposeKey :> "system")}}

Port(n, proto) == [port |-> n, protocol |-> proto]

\* the Endpoints object of the API server's service
EndpointChoices ==
    {[found |-> FALSE, subsets |-> <<>>],
     [found |-> TRUE, subsets |-> <<>>],
     [found |-> TRUE,
      subsets |-> <<[addresses |-> <<"10.0.0.5", "not-an-ip">>, ports |-> <<Port(443, "TCP")>>]>>]}

NoPolicies == [key \in PolKeys |-> {}]

\* the policies a namespace holds when the process starts: none, the ones a
\* previous run converged to, or a default-deny policy that drifted
RECURSIVE StoredAll(_, _)
StoredAll(policies, pols) ==
    IF policies = <<>> THEN pols
    ELSE LET p == Head(policies)
         IN  StoredAll(Tail(policies),
                       [pols EXCEPT ![<<p.namespace, p.name>>] = {StoredSpec(p.spec)}])

DriftedSpec == [podSelector |-> EmptySelector, policyTypes |-> <<"Ingress">>,
                ingress |-> NilSlice, egress |-> NilSlice]

PolicyChoices(ns, ep) ==
    {NoPolicies,
     [StoredAll(generateNetworkPolicies(ns, "n1", nsUID["n1"], ep.subsets), NoPolicies)
         EXCEPT ![<<"n1", "default-deny">>] = {DriftedSpec}]}

IdleWorker == [pc |-> "idle", key |-> "-", err |-> FALSE, calls |-> <<>>, lerr |-> "none"]

InitCommon ==
    /\ phase = "waiting"
    /\ stopCh = FALSE
    /\ synced = {}
    /\ queue = <<>>
    /\ marked = {}
    /\ delayed = {}
    /\ requeues = [k \in Keys |-> 0]
    /\ worker = [w \in Workers |-> IdleWorker]
    /\ enqCalls = [k \in Keys |-> 0]

NoEndpoints == [found |-> FALSE, subsets |-> <<>>]

\* the UIDs the API server gave the namespaces
FirstUIDs == [n1 |-> "uid-1", n2 |-> "uid-2"]

\* no endpoint subset of these clusters has two ports, so the builds behave
\* alike on them: one is taken
InitBuild ==
    /\ loopVar = "per-loop"
    /\ nsUID = FirstUIDs

\* the label-propagation commands against a cluster with one drifted pod
InitLabels ==
    /\ cmd \in {"finance", "label"}
    /\ nsLabels = [n1 |-> BothLabels("acme-42"), n2 |-> EmptyLabels]
    /\ depApi = [p1 |-> IF cmd = "finance" THEN AppOnly ELSE Labelled("acme-42"),
                 p2 |-> Labelled("acme-42"), c1 |-> Labelled("acme-42"), c2 |-> Labelled("acme-42")]
    /\ depCache = depApi
    /\ polApi = NoPolicies
    /\ polCache = NoPolicies
    /\ endpoints = NoEndpoints

\* the network command against a cluster without policies
InitNetwork ==
    /\ cmd = "network"
    /\ nsLabels = [n1 |-> (PurposeKey :> "system"), n2 |-> (CPKey :> "")]
    /\ depApi = [d \in Deps |-> AppOnly]
    /\ depCache = depApi
    /\ endpoints = [found |-> TRUE,
                    subsets |-> <<[addresses |-> <<"10.0.0.5", "not-an-ip">>, ports |-> <<Port(443, "TCP")>>]>>]
    /\ polApi = NoPolicies
    /\ polCache = polApi

Init == InitCommon /\ InitBuild /\ (InitLabels \/ InitNetwork)

\* the label-propagation commands against each cluster of FinanceClusters
PassInitLabels ==
    /\ cmd \in {"finance", "label"}
    /\ \E c \in FinanceClusters : nsLabels = c.ns /\ depApi = c.deps
    /\ depCache = depApi
    /\ polApi = NoPolicies
    /\ polCache = NoPolicies
    /\ endpoints = NoEndpoints

\* the network command against each namespace, endpoint and policy choice
PassInitNetwork ==
    /\ cmd = "network"
    /\ nsLabels \in NetworkNamespaces
    /\ depApi = [d \in Deps |-> AppOnly]
    /\ depCache = depApi
    /\ endpoints \in EndpointChoices
    /\ polApi \in PolicyChoices(nsLabels["n1"], endpoints)
    /\ polCache = polApi

PassInit == InitCommon /\ InitBuild /\ (PassInitLabels \/ PassInitNetwork)

-----------------------------------------------------------------------------
(* Start-up: kubeInformerFactory.Start, cache.WaitForCacheSync, controller.Run *)

Live == phase \in {"waiting", "started", "running"}

\* the resource kinds the informers of each command mirror
CmdKinds ==
    IF cmd = "network" THEN {"namespaces", "networkpolicies", "endpoints"}
    ELSE {"namespaces", "pods", "pvcs"}

FinanceWaitsForPodsOnly == {"pods"}

\* WaitForCacheSync(stopCh, podInformer...HasSynced, pvcInformer...HasSynced)
FinanceWaitKinds == {"pods", "pvcs"}

LabelWaitKinds == {"pods", "pvcs"}

\* WaitForCacheSync(stopCh, networkPolicyInformer...HasSynced, defaultNsEndpointsInformer...HasSynced)
NetworkWaitKinds == {"networkpolicies", "endpoints"}

WaitKinds ==
    CASE cmd = "finance" -> FinanceWaitKinds
      [] cmd = "label"   -> LabelWaitKinds
      [] cmd = "network" -> NetworkWaitKinds

\* the kinds controller.Run waits for before it starts the workers
RunWaitKinds == {"namespaces"}

ObjectVars == <<nsLabels, nsUID, depCache, depApi, polCache, polApi, endpoints>>

QueueVars == <<queue, marked, delayed, requeues, worker, enqCalls>>

\* an informer completes its initial list
InformerSync(kind) ==
    /\ Live
    /\ kind \in CmdKinds \ synced
    /\ synced' = synced \cup {kind}
    /\ UNCHANGED <<cmd, loopVar, phase, stopCh, ObjectVars, QueueVars>>

\* WaitForCacheSync returns true
CacheSyncOk ==
    /\ phase = "waiting"
    /\ WaitKinds \subseteq synced
    /\ phase' = "started"
    /\ UNCHANGED <<cmd, loopVar, stopCh, synced, ObjectVars, QueueVars>>

\* WaitForCacheSync returns false: the stop channel closed first; klog.Fatalf
CacheSyncFailed ==
    /\ phase = "waiting"
    /\ stopCh
    /\ phase' = "fatal"
    /\ UNCHANGED <<cmd, loopVar, stopCh, synced, ObjectVars, QueueVars>>

\* controller.Run: the namespace cache has synced, the workers are started
RunStart ==
    /\ phase = "started"
    /\ RunWaitKinds \subseteq synced
    /\ phase' = "running"
    /\ UNCHANGED <<cmd, loopVar, stopCh, synced, ObjectVars, QueueVars>>

\* controller.Run returns an error: the stop channel closed first; klog.Fatalf
RunSyncFailed ==
    /\ phase = "started"
    /\ stopCh
    /\ ~(RunWaitKinds \subseteq synced)
    /\ phase' = "fatal"
    /\ UNCHANGED <<cmd, loopVar, stopCh, synced, ObjectVars, QueueVars>>

\* signals.SetupSignalHandler: the shutdown signal closes stopCh
Stop ==
    /\ Live
    /\ ~stopCh
    /\ stopCh' = TRUE
    /\ UNCHANGED <<cmd, loopVar, phase, synced, ObjectVars, QueueVars>>

\* controller.Run returns once cancelled and no pass is in flight
RunReturn ==
    /\ phase = "running"
    /\ stopCh
    /\ Drained
    /\ phase' = "returned"
    /\ UNCHANGED <<cmd, loopVar, stopCh, synced, ObjectVars, QueueVars>>

-----------------------------------------------------------------------------
(* Event handlers *)

\* namespaceLister.Get(name) of the event handlers
NamespaceResolves(name) == "namespaces" \in synced /\ name \in Keys

\* the controller's own handler of namespace add / update events
NamespaceEvent(k) ==
    /\ Live
    /\ Enqueue(<<k>>)
    /\ UNCHANGED <<cmd, loopVar, phase, stopCh, synced, ObjectVars, delayed, requeues, worker>>

\* the keys AddFunc enqueues for an add event of pod / PVC d
AddFuncKeys(d) == IF NamespaceResolves(DepNs[d]) THEN <<DepNs[d]>> ELSE <<>>

UpdateFuncKeysAnyVersion(d, oldRV, newRV) ==
    IF NamespaceResolves(DepNs[d]) THEN <<DepNs[d]>> ELSE <<>>

\* the keys UpdateFunc enqueues for an update event of pod / PVC d whose old
\* and new objects carry resource versions oldRV and newRV
UpdateFuncKeys(d, oldRV, newRV) ==
    IF newRV = oldRV THEN <<>>
    ELSE IF NamespaceResolves(DepNs[d]) THEN <<DepNs[d]>> ELSE <<>>

\* eventHandlers.AddFunc (financeCmd registers it on the pod and PVC informers)
DepAddEvent(d) ==
    /\ Live
    /\ cmd = "finance"
    /\ Enqueue(AddFuncKeys(d))
    /\ UNCHANGED <<cmd, loopVar, phase, stopCh, synced, ObjectVars, delayed, requeues, worker>>

\* eventHandlers.UpdateFunc: a changed object, or a resync of an unchanged one
DepUpdateEvent(d, oldRV, newRV) ==
    /\ Live
    /\ cmd = "finance"
    /\ Enqueue(UpdateFuncKeys(d, oldRV, newRV))
    /\ UNCHANGED <<cmd, loopVar, phase, stopCh, synced, ObjectVars, delayed, requeues, worker>>

\* the labels of namespace k are changed to a: the update event of the
\* namespace reaches the controller's handler, which enqueues the key
NamespaceRelabel(k, a) ==
    /\ Live
    /\ nsLabels[k] # a
    /\ nsLabels' = [nsLabels EXCEPT ![k] = a]
    /\ Enqueue(<<k>>)
    /\ UNCHANGED <<cmd, loopVar, phase, stopCh, synced, nsUID, depCache, depApi, polCache,
                   polApi, endpoints, delayed, requeues, worker>>

-----------------------------------------------------------------------------
(* The workers *)

\* blocking pop; nothing is dequeued once the stop channel is closed.  The
\* workers are interchangeable: the idle worker of lowest number takes the key
Get(w) ==
    /\ phase = "running"
    /\ MayDequeue
    /\ worker[w].pc = "idle"
    /\ \A v \in Workers : v < w => worker[v].pc # "idle"
    /\ queue # <<>>
    /\ LET k == Head(queue)
       IN  /\ queue' = Tail(queue)
           /\ worker' = [worker EXCEPT ![w] = [IdleWorker EXCEPT !.pc = "got", !.key = k]]
           /\ enqCalls' = [enqCalls EXCEPT ![k] = 0]
    /\ UNCHANGED <<cmd, loopVar, phase, stopCh, synced, ObjectVars, marked, delayed, requeues>>

\* the number of the failing API call of a pass: none, or one of those a pass can issue
FailPoints == 0 .. (IF cmd = "network" THEN 2 * Cardinality(PolNames) ELSE Cardinality(Deps))

ListErrors == IF cmd = "network" THEN {"none"} ELSE {"none", "pods", "pvcs"}

\* the update events of the objects a finance pass updated reach UpdateFunc
RECURSIVE UpdatedKeys(_)
UpdatedKeys(calls) ==
    IF calls = <<>> THEN <<>>
    ELSE (IF Head(calls).ok THEN UpdateFuncKeys(Head(calls).obj, 1, 2) ELSE <<>>)
         \o UpdatedKeys(Tail(calls))

\* what the worker does with the outcome r of the callback
Outcome(w, r) ==
    IF r.out = "panic"
    THEN /\ phase' = "crashed"
         /\ UNCHANGED <<worker, queue, marked, enqCalls>>
    ELSE /\ phase' = phase
         /\ worker' = [worker EXCEPT ![w] = [pc |-> "ret", key |-> worker[w].key,
                                             err |-> (r.out = "err"), calls |-> r.calls,
                                             lerr |-> r.lerr]]
         /\ Enqueue(IF cmd = "finance" THEN UpdatedKeys(r.calls) ELSE <<>>)

\* Synchronize(key): one pass of the sync callback
Sync(w) ==
    /\ phase = "running"
    /\ worker[w].pc = "got"
    /\ LET k == worker[w].key
       IN  \E failAt \in FailPoints, listErr \in ListErrors :
             IF cmd = "network"
             THEN LET r == NetworkSync(nsLabels[k], k, nsUID[k], GetEndpoints, failAt,
                                       [cache |-> polCache, api |-> polApi, calls |-> <<>>, out |-> "run", lerr |-> "none"])
                  IN  /\ polCache' = r.cache
                      /\ polApi' = r.api
                      /\ Outcome(w, r)
                      /\ UNCHANGED <<depCache, depApi>>
             ELSE \E pods \in Perms(ListPods(k)), pvcs \in Perms(ListPvcs(k)) :
                  LET st0 == [cache |-> depCache, api |-> depApi, calls |-> <<>>, out |-> "run", lerr |-> "none"]
                      r   == IF cmd = "finance"
                             THEN FinanceSync(nsLabels[k], pods, pvcs, listErr, failAt, st0)
                             ELSE LabelSync(nsLabels[k], pods, pvcs, listErr, failAt, st0)
                  IN  /\ depCache' = r.cache
                      /\ depApi' = r.api
                      /\ Outcome(w, r)
                      /\ UNCHANGED <<polCache, polApi>>
    /\ UNCHANGED <<cmd, loopVar, stopCh, synced, nsLabels, nsUID, endpoints, delayed, requeues>>

\* nil error: forget the key, reset its backoff; error: re-enqueue it after
\* a backoff delay; then mark the pass complete
Finish(w) ==
    /\ phase = "running"
    /\ worker[w].pc = "ret"
    /\ LET k == worker[w].key
           q == Done([queue |-> queue, marked |-> marked], k)
           b == IF worker[w].err
                THEN AddRateLimited([requeues |-> requeues, delayed |-> delayed], k)
                ELSE Forget([requeues |-> requeues, delayed |-> delayed], k)
       IN  /\ requeues' = b.requeues
           /\ delayed' = b.delayed
           /\ queue' = q.queue
           /\ marked' = q.marked
           /\ worker' = [worker EXCEPT ![w] = IdleWorker]
    /\ UNCHANGED <<cmd, loopVar, phase, stopCh, synced, ObjectVars, enqCalls>>

\* the backoff delay of a failed key is over: it is added to the queue
BackoffExpire(k) ==
    /\ phase = "running"
    /\ k \in delayed
    /\ LET q == Add([queue |-> queue, marked |-> marked], k, Processing)
       IN  /\ queue' = q.queue
           /\ marked' = q.marked
    /\ delayed' = delayed \ {k}
    /\ UNCHANGED <<cmd, loopVar, phase, stopCh, synced, ObjectVars, requeues, worker, enqCalls>>

-----------------------------------------------------------------------------

StartUp == CacheSyncOk \/ CacheSyncFailed \/ RunStart \/ RunSyncFailed \/ Stop \/ RunReturn

Next ==
    \/ StartUp
    \/ \E kind \in {"namespaces", "pods", "pvcs", "networkpolicies", "endpoints"} : InformerSync(kind)
    \/ \E k \in Keys : NamespaceEvent(k)
    \/ \E d \in Deps : DepAddEvent(d)
    \/ \E d \in Deps, rv \in {1, 2} : DepUpdateEvent(d, 1, rv)
    \/ \E w \in Workers : Get(w)
    \/ \E w \in Workers : Sync(w)
    \/ \E w \in Workers : Finish(w)
    \/ \E k \in Keys : BackoffExpire(k)

Spec == Init /\ [][Next]_vars

\* the scheduler runs every worker that can take a step, every pass of the
\* sync callback returns, timers fire, and Run returns once it may
Fairness ==
    /\ WF_vars(\E w \in Workers : Get(w))
    /\ \A w \in Workers : []<>(worker[w].pc # "got")
    /\ \A w \in Workers : WF_vars(Finish(w))
    /\ \A k \in Keys : WF_vars(BackoffExpire(k))
    /\ WF_vars(RunReturn)

FairSpec == Spec /\ Fairness

\* the passes of the sync callbacks over the clusters of PassInit, one pass
\* at a time: namespace events reach keys that are neither pending nor
\* processing, and no shutdown signal arrives
PassNext ==
    \/ CacheSyncOk
    \/ RunStart
    \/ \E kind \in {"namespaces", "pods", "pvcs", "networkpolicies", "endpoints"} : InformerSync(kind)
    \/ \E k \in Keys : k \notin Range(queue) /\ k \notin Processing /\ NamespaceEvent(k)
    \/ \E w \in Workers : Processing = {} /\ Get(w)
    \/ \E w \in Workers : Sync(w)
    \/ \E w \in Workers : Finish(w)
    \/ \E k \in Keys : BackoffExpire(k)

PassSpec == PassInit /\ [][PassNext]_vars

\* the label-propagation commands against a cluster whose two namespaces both
\* carry a workload-id, with a pod and a PVC of n1 that lack the label
ListInit ==
    /\ InitCommon
    /\ InitBuild
    /\ cmd \in {"finance", "label"}
    /\ nsLabels = [n1 |-> BothLabels("acme-42"), n2 |-> BothLabels("w2")]
    /\ depApi = [p1 |-> AppOnly, p2 |-> Labelled("acme-42"), c1 |-> AppOnly, c2 |-> Labelled("w2")]
    /\ depCache = depApi
    /\ polApi = NoPolicies
    /\ polCache = NoPolicies
    /\ endpoints = NoEndpoints

\* the passes of the label-propagation callbacks over the cluster of ListInit
ListSpec == ListInit /\ [][PassNext]_vars

\* the labels of the namespaces policies are synthesized for: with and without
\* purpose = system, and each boolean label absent, true, false or unparseable
SynthNamespaces ==
    {purpose @@ sameNs @@ ingress :
        purpose \in {EmptyLabels, (PurposeKey :> "system")},
        sameNs  \in {EmptyLabels} \cup {(AllowSameNsKey :> v) : v \in {"true", "false", "maybe"}},
        ingress \in {EmptyLabels} \cup {(AllowIngressKey :> v) : v \in {"true", "false", "maybe"}}}

\* the subsets of the Endpoints object of the API server's service
SubsetD == [addresses |-> <<"10.0.0.5", "not-an-ip">>, ports |-> <<Port(443, "TCP")>>]

SubsetTwoPorts ==
    [addresses |-> <<"fd00::1", "::ffff:10.0.0.6", "FD00:0:0::2">>,
     ports |-> <<Port(443, "TCP"), Port(DnsPort, "UDP")>>]

SynthEndpoints ==
    {[found |-> TRUE, subsets |-> ss] :
        ss \in {<<SubsetD>>, <<SubsetTwoPorts>>, <<SubsetTwoPorts, SubsetD>>}}

\* the UIDs a namespace may have
UIDs == {"uid-1", "uid-2", "uid-3"}

\* the network command, in either build, against a cluster without policies
SynthInit ==
    /\ InitCommon
    /\ cmd = "network"
    /\ loopVar \in {"per-loop", "per-iteration"}
    /\ nsUID \in {[FirstUIDs EXCEPT !["n1"] = u] : u \in {"uid-1", "uid-3"}}
    /\ \E a \in SynthNamespaces : nsLabels = [n1 |-> a, n2 |-> EmptyLabels]
    /\ depApi = [d \in Deps |-> AppOnly]
    /\ depCache = depApi
    /\ endpoints \in SynthEndpoints
    /\ polApi = NoPolicies
    /\ polCache = polApi

\* the passes of networkCmd for namespace n1, one at a time
SynthNext ==
    \/ CacheSyncOk
    \/ RunStart
    \/ \E kind \in {"namespaces", "networkpolicies", "endpoints"} : InformerSync(kind)
    \/ "n1" \notin Range(queue) /\ "n1" \notin Processing /\ NamespaceEvent("n1")
    \/ \E w \in Workers : Processing = {} /\ Get(w)
    \/ \E w \in Workers : Sync(w)
    \/ \E w \in Workers : Finish(w)
    \/ BackoffExpire("n1")

SynthSpec == SynthInit /\ [][SynthNext]_vars

\* the labels namespace n1 goes through
ChangeLabels ==
    {(PurposeKey :> "system"),
     (AllowSameNsKey :> "true" @@ AllowIngressKey :> "true"),
     EmptyLabels}

\* the network command against a cluster without policies
ChangeInit ==
    /\ InitCommon
    /\ InitBuild
    /\ cmd = "network"
    /\ \E a \in ChangeLabels : nsLabels = [n1 |-> a, n2 |-> EmptyLabels]
    /\ depApi = [d \in Deps |-> AppOnly]
    /\ depCache = depApi
    /\ endpoints = [found |-> TRUE, subsets |-> <<SubsetD>>]
    /\ polApi = NoPolicies
    /\ polCache = polApi

\* the passes of networkCmd for namespace n1, one at a time, and changes of
\* the namespace's labels between passes
ChangeNext ==
    \/ SynthNext
    \/ \E a \in ChangeLabels :
          "n1" \notin Range(queue) /\ "n1" \notin Processing /\ NamespaceRelabel("n1", a)

ChangeSpec == ChangeInit /\ [][ChangeNext]_vars

\* endpoint subsets without a usable address
SubsetUnparseable == [addresses |-> <<"not-an-ip">>, ports |-> <<Port(443, "TCP")>>]

SubsetNoAddress == [addresses |-> <<>>, ports |-> <<Port(443, "TCP")>>]

\* the Endpoints object is missing, or none of its addresses is usable
EdgeEndpoints ==
    {NoEndpoints,
     [found |-> TRUE, subsets |-> <<SubsetUnparseable>>],
     [found |-> TRUE, subsets |-> <<SubsetD, SubsetNoAddress>>]}

\* the network command against a cluster whose API-server endpoints are
\* missing or unusable; n1 holds no policy or a default-deny that drifted
EdgeInit ==
    /\ InitCommon
    /\ InitBuild
    /\ cmd = "network"
    /\ \E a \in {EmptyLabels, (PurposeKey :> "system")} :
           nsLabels = [n1 |-> a, n2 |-> EmptyLabels]
    /\ depApi = [d \in Deps |-> AppOnly]
    /\ depCache = depApi
    /\ endpoints \in EdgeEndpoints
    /\ polApi \in {NoPolicies, [NoPolicies EXCEPT ![<<"n1", "default-deny">>] = {DriftedSpec}]}
    /\ polCache = polApi

EdgeSpec == EdgeInit /\ [][SynthNext]_vars

-----------------------------------------------------------------------------
(* Properties of the work queue and the worker loop *)

\* worker w takes key k off the queue
GetStep(w, k) == worker[w].pc = "idle" /\ worker'[w].pc = "got" /\ worker'[w].key = k

\* the pass of worker w returns
SyncStep(w) == worker[w].pc = "got" /\ worker'[w].pc = "ret"

\* worker w completes its key
FinishStep(w) == worker[w].pc = "ret" /\ worker'[w].pc = "idle"

Running == phase = "running" /\ ~stopCh

\* C1: at any moment at most one worker executes the sync callback for a
\* given key, whatever the number of workers and of enqueue calls
AtMostOneWorkerPerKey ==
    \A w1, w2 \in Workers :
        (w1 # w2 /\ worker[w1].pc # "idle" /\ worker[w2].pc # "idle")
            => worker[w1].key # worker[w2].key

\* a key was enqueued while a worker holds it, and another worker is free
EnqueuedWhileHeldWithFreeWorker ==
    /\ Running
    /\ \E w1, w2 \in Workers :
         /\ worker[w1].pc = "got"
         /\ worker[w2].pc = "idle"
         /\ enqCalls[worker[w1].key] >= 1
         /\ worker[w1].key \in marked

\* a key has one pending entry as soon as it was enqueued and is not held,
\* and never more than one
OnePendingEntry ==
    \A k \in Keys :
        /\ Count(queue, k) <= 1
        /\ (enqCalls[k] >= 1 /\ k \notin Processing) => Count(queue, k) = 1

\* C2: enqueue calls for a key that is already pending and not yet taken by
\* a worker coalesce: the key has exactly one pending entry, and the worker
\* that takes it leaves none behind, so the calls lead to exactly one pass
EnqueuesCoalesce ==
    /\ []OnePendingEntry
    /\ [][\A w \in Workers, k \in Keys :
            GetStep(w, k) => (k \notin Range(queue') /\ k \notin marked')]_vars

\* before any worker runs, a key was enqueued more than once and is pending once
EnqueuedTwiceWhilePending ==
    \E k \in Keys :
        /\ phase \in {"waiting", "started"}
        /\ enqCalls[k] >= 2
        /\ Count(queue, k) = 1

\* a key enqueued while it is held is marked, and is not pending
MarkedWhileHeld ==
    \A k \in Keys :
        (k \in Processing /\ enqCalls[k] >= 1) => (k \in marked /\ k \notin Range(queue))

\* C3: enqueue calls for a key during its pass are not lost and do not start
\* a concurrent pass: the key is marked, and when the pass completes it
\* becomes pending exactly once, however many calls there were; the worker
\* that takes that entry leaves nothing pending or marked
EnqueueDuringPassOneFollowUp ==
    /\ []MarkedWhileHeld
    /\ [][\A w \in Workers :
            (FinishStep(w) /\ enqCalls[worker[w].key] >= 1)
                => /\ Count(queue', worker[w].key) = 1
                   /\ worker[w].key \notin marked'
                   /\ worker[w].key \notin Processing']_vars
    /\ [][\A w \in Workers, k \in Keys :
            GetStep(w, k) => (enqCalls'[k] = 0 /\ k \notin Range(queue') /\ k \notin marked')]_vars

\* a pass has returned, and its key was enqueued more than once meanwhile
EnqueuedTwiceDuringPass ==
    \E w \in Workers :
        /\ worker[w].pc = "ret"
        /\ enqCalls[worker[w].key] >= 2
        /\ worker[w].key \in marked

\* the key is pending, marked, waiting for its backoff, or held by a worker
Scheduled(k) == k \in Range(queue) \/ k \in marked \/ k \in delayed \/ k \in Processing

ShutdownDrains ==
    /\ [][\A w \in Workers :
            (stopCh /\ worker[w].pc = "idle") => worker'[w].pc = "idle"]_vars
    /\ [](phase = "returned" => (stopCh /\ Drained))
    /\ [][\A w \in Workers :
            /\ worker[w].pc = "got"
                 => (worker'[w].pc \in {"got", "ret"} /\ worker'[w].key = worker[w].key)
            /\ worker[w].pc = "ret"
                 => (worker'[w] = worker[w] \/ worker'[w].pc = "idle")]_vars
    /\ \A w \in Workers : (stopCh /\ worker[w].pc # "idle") ~> (worker[w].pc = "idle")
    /\ (stopCh /\ phase = "running") ~> (phase = "returned")

\* cancellation was raised while a pass is in flight, a key is pending and a
\* worker is free
StoppedWithPassInFlight ==
    /\ stopCh
    /\ phase = "running"
    /\ queue # <<>>
    /\ \E w1, w2 \in Workers : worker[w1].pc = "got" /\ worker[w2].pc = "idle"

\* C7: no pass starts before the caches of every kind the callback reads
\* have completed their initial sync; if the wait for them is given up the
\* process ends fatally, and the controller never runs
SyncedBeforeFirstPass ==
    /\ []((phase \in {"running", "returned"} \/ ~Drained) => CmdKinds \subseteq synced)
    /\ [](phase = "fatal" => Drained)
    /\ [][phase = "fatal" => phase' = "fatal"]_vars
    /\ [][(phase = "waiting" /\ phase' # "waiting")
            => \/ phase' = "started" /\ WaitKinds \subseteq synced
               \/ phase' = "fatal" /\ stopCh]_vars
    /\ [][(phase = "started" /\ phase' # "started")
            => \/ phase' = "running" /\ CmdKinds \subseteq synced
               \/ phase' = "fatal" /\ stopCh]_vars

\* a pass is in flight
PassInFlight ==
    \E w \in Workers : worker[w].pc = "got" /\ CmdKinds \subseteq synced

-----------------------------------------------------------------------------
(* Properties of the reconcile passes *)

LabelCmd == cmd \in {"finance", "label"}

\* the dependents of namespace k
DepsOf(k) == {d \in Deps : DepNs[d] = k}

\* the calls of a returned pass that name object obj
CallsFor(calls, obj) == {i \in 1 .. Len(calls) : calls[i].obj = obj}

\* the desired policies of namespace k, as the API server stores them
DesiredStored(k) ==
    LET policies == generateNetworkPolicies(nsLabels[k], k, nsUID[k], endpoints.subsets)
    IN  [i \in 1 .. Len(policies) |->
            [key |-> <<k, policies[i].name>>, spec |-> StoredSpec(policies[i].spec)]]

\* C5: a retry pass that returns nil after an earlier pass of the key failed
\* leaves every dependent of the namespace with the namespace's workload-id
\* value (on namespaces whose two workload-id keys agree) and every desired
\* policy stored with the desired spec
ConvergedAfterRetry ==
    [][\A w \in Workers :
        LET k == worker[w].key
        IN  (/\ SyncStep(w)
             /\ requeues[k] >= 1
             /\ ~worker'[w].err
             /\ worker'[w].lerr = "none"
             /\ ~Has(nsLabels[k], CPKey))
            => /\ (/\ LabelCmd
                   /\ Has(nsLabels[k], FinKey)
                   /\ Lbl(nsLabels[k], WidKey) = Lbl(nsLabels[k], FinKey))
                  => \A d \in DepsOf(k) : Lbl(depApi'[d], FinKey) = Lbl(nsLabels[k], FinKey)
               /\ cmd = "network"
                  => \A i \in DOMAIN DesiredStored(k) :
                        polApi'[DesiredStored(k)[i].key] = {DesiredStored(k)[i].spec}]_vars

\* a retry returned nil and issued no call, and a pod of the namespace still
\* lacks the label on the API server
RetryLeftDrift ==
    \E w \in Workers :
        /\ worker[w].pc = "ret"
        /\ requeues[worker[w].key] >= 1
        /\ ~worker[w].err
        /\ worker[w].lerr = "none"
        /\ worker[w].calls = <<>>
        /\ \E d \in DepsOf(worker[w].key) :
              /\ ~Has(depApi[d], FinKey)
              /\ Has(depCache[d], FinKey)

\* C8: a pass for a namespace that carries the control-plane label issues no
\* API call, changes no object and returns nil, in every command
ControlPlaneSkipped ==
    [][\A w \in Workers :
        (/\ worker[w].pc = "got"
         /\ Has(nsLabels[worker[w].key], CPKey)
         /\ (worker'[w] # worker[w] \/ phase' # phase))
        => /\ worker'[w].pc = "ret"
           /\ phase' = phase
           /\ ~worker'[w].err
           /\ worker'[w].calls = <<>>
           /\ ObjectVars' = ObjectVars]_vars

\* a pass for a control-plane namespace has returned although a dependent of
\* the namespace lacks the namespace's workload-id value
ControlPlanePassReturned ==
    \E w \in Workers :
        /\ worker[w].pc = "ret"
        /\ Has(nsLabels[worker[w].key], CPKey)
        /\ Has(nsLabels[worker[w].key], FinKey)
        /\ \E d \in DepsOf(worker[w].key) :
              Lbl(depApi[d], FinKey) # Lbl(nsLabels[worker[w].key], FinKey)

\* the dependent's workload-id label is absent or different from v
Drifted(labels, v) == ~Has(labels, FinKey) \/ labels[FinKey] # v

\* C9: for a non-control-plane namespace whose workload-id label has value
\* v, a pass in which every call succeeds issues exactly one update call for
\* each dependent of the namespace whose workload-id label is absent or
\* different from v, that call sets the label to v, and afterwards every
\* dependent of the namespace has workload-id = v
LabelPropagationResult ==
    [][\A w \in Workers :
        LET k == worker[w].key
            v == nsLabels[k][FinKey]
        IN  (/\ SyncStep(w)
             /\ LabelCmd
             /\ ~Has(nsLabels[k], CPKey)
             /\ Has(nsLabels[k], FinKey)
             /\ ~worker'[w].err
             /\ worker'[w].lerr = "none")
            => /\ \A d \in DepsOf(k) :
                    Drifted(depApi[d], v)
                        => /\ Cardinality(CallsFor(worker'[w].calls, d)) = 1
                           /\ \A i \in CallsFor(worker'[w].calls, d) :
                                 worker'[w].calls[i].val = v
               /\ \A d \in DepsOf(k) : ~Drifted(depApi'[d], v)]_vars

\* C10: a dependent whose workload-id label equals its namespace's
\* workload-id value is left untouched by a pass of its namespace: no update
\* call is issued for it and its label keeps its value
MatchingDependentUntouched ==
    [][\A w \in Workers :
        LET k == worker[w].key
        IN  (SyncStep(w) /\ LabelCmd /\ Has(nsLabels[k], FinKey))
            => \A d \in DepsOf(k) :
                  (~Drifted(depApi[d], nsLabels[k][FinKey]) /\ depCache[d] = depApi[d])
                      => /\ CallsFor(worker'[w].calls, d) = {}
                         /\ ~Drifted(depApi'[d], nsLabels[k][FinKey])]_vars

\* C11: a pass of label propagation for namespace N issues update calls only
\* for pods and PVCs that live in N, and changes no other pod or PVC
NamespaceScopedPropagation ==
    [][\A w \in Workers :
        (SyncStep(w) /\ LabelCmd)
            => /\ \A i \in 1 .. Len(worker'[w].calls) :
                     DepNs[worker'[w].calls[i].obj] = worker[w].key
               /\ \A d \in Deps \ DepsOf(worker[w].key) : depApi'[d] = depApi[d]]_vars

\* a returned pass updated a PVC of another namespace
UpdatedOutsideNamespace ==
    \E w \in Workers :
        /\ worker[w].pc = "ret"
        /\ \E i \in 1 .. Len(worker[w].calls) :
              /\ worker[w].calls[i].ok
              /\ DepNs[worker[w].calls[i].obj] # worker[w].key

\* C12: when an update call of a label-propagation pass fails, the pass issues
\* no further call and returns an error, and the labels written by the calls
\* that succeeded before it stay on the API server
UpdateFailureAborts ==
    [][\A w \in Workers :
        (SyncStep(w) /\ LabelCmd)
            => LET calls == worker'[w].calls
               IN  /\ \A i \in 1 .. Len(calls) :
                         ~calls[i].ok => (i = Len(calls) /\ worker'[w].err)
                   /\ worker'[w].err => (calls # <<>> /\ ~calls[Len(calls)].ok)
                   /\ \A i \in 1 .. Len(calls) :
                         calls[i].ok
                             => /\ Has(depApi'[calls[i].obj], FinKey)
                                /\ depApi'[calls[i].obj][FinKey] = calls[i].val]_vars

\* a pass returned an error after a call that succeeded, and left a listed
\* dependent that differs from the propagated value without a call
AbortedAfterFirstUpdate ==
    \E w \in Workers :
        /\ worker[w].pc = "ret"
        /\ worker[w].err
        /\ Len(worker[w].calls) >= 2
        /\ worker[w].calls[1].ok
        /\ \E d \in Deps :
              /\ CallsFor(worker[w].calls, d) = {}
              /\ Lbl(depCache[d], FinKey) # PropagatedValue(nsLabels[worker[w].key])

\* C13: when listing the pods of a namespace fails, the pass goes on to the
\* namespace's PVCs as if no pod had been listed: unless an update call fails,
\* every PVC of the namespace whose workload-id differs from the propagated
\* value gets an update call, and the pass does not return an error
PodListFailureContinues ==
    [][\A w \in Workers :
        (/\ SyncStep(w)
         /\ LabelCmd
         /\ worker'[w].lerr = "pods"
         /\ \A i \in 1 .. Len(worker'[w].calls) : worker'[w].calls[i].ok)
            => /\ ~worker'[w].err
               /\ \A c \in Pvcs \cap DepsOf(worker[w].key) :
                     (/\ "pvcs" \in synced
                      /\ Lbl(depCache[c], FinKey) # PropagatedValue(nsLabels[worker[w].key]))
                         => CallsFor(worker'[w].calls, c) # {}]_vars

\* a pass whose pod listing failed returned without a call while a PVC of its
\* namespace lacks the propagated value
PodListFailureSkippedPvcs ==
    \E w \in Workers :
        /\ worker[w].pc = "ret"
        /\ worker[w].lerr = "pods"
        /\ ~worker[w].err
        /\ worker[w].calls = <<>>
        /\ "pvcs" \in synced
        /\ \E c \in Pvcs \cap DepsOf(worker[w].key) :
              Lbl(depCache[c], FinKey) # PropagatedValue(nsLabels[worker[w].key])

-----------------------------------------------------------------------------
(* Properties of policy synthesis, read off the passes of networkCmd *)

\* the create calls of a pass, in the order they were issued
RECURSIVE CreateCalls(_)
CreateCalls(calls) ==
    IF calls = <<>> THEN <<>>
    ELSE (IF Head(calls).op = "create" THEN <<Head(calls)>> ELSE <<>>)
         \o CreateCalls(Tail(calls))

\* the policies a pass created, as objects
Emitted(calls) ==
    [i \in 1 .. Len(CreateCalls(calls)) |->
        [name      |-> CreateCalls(calls)[i].obj[2],
         namespace |-> CreateCalls(calls)[i].obj[1],
         owner     |-> CreateCalls(calls)[i].owner,
         spec      |-> CreateCalls(calls)[i].val]]

Names(policies) == [i \in 1 .. Len(policies) |-> policies[i].name]

\* a pass of networkCmd for a namespace that holds no policy synthesizes the
\* list and returns nil: every policy of the list was created, in list order
FullSynthesis(w) ==
    /\ SyncStep(w)
    /\ cmd = "network"
    /\ ~worker'[w].err
    /\ ~Has(nsLabels[worker[w].key], CPKey)
    /\ \A n \in PolNames : polApi[<<worker[w].key, n>>] = {}

\* a returned pass that created policies and returned nil
CreatedBy(w) ==
    IF worker[w].pc = "ret" /\ cmd = "network" /\ ~worker[w].err
    THEN Emitted(worker[w].calls)
    ELSE <<>>

GatedSelector == MatchLabels({<<"network.statcan.gc.ca/allow-kube-apiserver", "true">>})

\* C14: the synthesized list is default-deny, then allow-same-namespace if
\* emitted, then the allow-ingress-controller policy if emitted, then
\* allow-core-system, then one API-server egress policy, which has an empty pod
\* selector iff purpose = system and the label-gated selector otherwise; a
\* system namespace without further labels and a namespace with only
\* allow-same-ns = true each get four policies
PolicyListShape ==
    [][\A w \in Workers :
        FullSynthesis(w)
            => LET out    == Emitted(worker'[w].calls)
                   ns     == nsLabels[worker[w].key]
                   api    == IF IsSystem(ns) THEN "allow-kube-apiserver"
                             ELSE "optional-allow-kube-apiserver"
                   shapes == {<<"default-deny">> \o a \o b
                                  \o <<"default-allow-core-system", api>> :
                                  a \in {<<>>, <<"allow-same-namespace">>},
                                  b \in {<<>>, <<"default-allow-ingress-controller">>}}
               IN  /\ Names(out) \in shapes
                   /\ out[Len(out)].spec.policyTypes = <<"Egress">>
                   /\ out[Len(out)].spec.podSelector
                          = IF IsSystem(ns) THEN EmptySelector ELSE GatedSelector
                   /\ \A i \in 1 .. Len(out) : out[i].namespace = worker[w].key
                   /\ ns = (PurposeKey :> "system")
                          => Names(out) = <<"default-deny", "allow-same-namespace",
                                            "default-allow-core-system", "allow-kube-apiserver">>
                   /\ ns = (AllowSameNsKey :> "true")
                          => Names(out) = <<"default-deny", "allow-same-namespace",
                                            "default-allow-core-system",
                                            "optional-allow-kube-apiserver">>]_vars

\* a pass created all five policies for a system namespace
FivePoliciesCreated ==
    \E w \in Workers :
        /\ Len(CreatedBy(w)) = 5
        /\ IsSystem(nsLabels[worker[w].key])

\* the setting of allow-same-namespace as specified: the parsed label when it
\* is present and parses, the default of the namespace's purpose otherwise
SameNsSetting(ns) ==
    IF Has(ns, AllowSameNsKey) /\ ParseBool(ns[AllowSameNsKey]).ok
    THEN ParseBool(ns[AllowSameNsKey]).val
    ELSE IsSystem(ns)

\* C15: allow-same-namespace is emitted iff the parsed allow-same-ns label is
\* true when the label is present and parses, and iff purpose = system when
\* the label is absent or does not parse
SameNamespaceDecision ==
    [][\A w \in Workers :
        FullSynthesis(w)
            => ("allow-same-namespace" \in Range(Names(Emitted(worker'[w].calls)))
                    <=> SameNsSetting(nsLabels[worker[w].key]))]_vars

\* a pass for a system namespace with an unparseable allow-same-ns label
\* returned nil without allow-same-namespace
SystemUnparseableOmitted ==
    \E w \in Workers :
        /\ Len(CreatedBy(w)) >= 3
        /\ IsSystem(nsLabels[worker[w].key])
        /\ Has(nsLabels[worker[w].key], AllowSameNsKey)
        /\ ~ParseBool(nsLabels[worker[w].key][AllowSameNsKey]).ok
        /\ "allow-same-namespace" \notin Range(Names(CreatedBy(w)))

\* C16: the allow-ingress-controller policy is emitted iff the
\* allow-ingress-controller label is present and parses as true, whatever the
\* purpose of the namespace
IngressControllerDecision ==
    [][\A w \in Workers :
        FullSynthesis(w)
            => LET ns == nsLabels[worker[w].key]
               IN  "default-allow-ingress-controller" \in Range(Names(Emitted(worker'[w].calls)))
                       <=> /\ Has(ns, AllowIngressKey)
                           /\ ns[AllowIngressKey] \in {"1", "t", "T", "TRUE", "true", "True"}]_vars

\* a pass created the allow-ingress-controller policy for a namespace that is
\* not a system namespace
IngressControllerCreated ==
    \E w \in Workers :
        /\ "default-allow-ingress-controller" \in Range(Names(CreatedBy(w)))
        /\ ~IsSystem(nsLabels[worker[w].key])

\* the egress rules of the API-server policy a pass created
ApiServerRules(policies) == policies[Len(policies)].spec.egress.e

\* the positions of the addresses that parse
Parseable(addresses) == {j \in 1 .. Len(addresses) : ParseIP(addresses[j]).ok}

\* C17: the API-server policy has one egress rule per endpoint subset, in
\* order; the peers of a rule are, in address order, one IP block per address
\* that parses, with the address's text and /32 for IPv4, /128 for IPv6; an
\* address that does not parse adds no peer and fails nothing
EgressRulesFromSubsets ==
    [][\A w \in Workers :
        FullSynthesis(w)
            => LET rules   == ApiServerRules(Emitted(worker'[w].calls))
                   subsets == endpoints.subsets
               IN  /\ Len(rules) = Len(subsets)
                   /\ \A i \in 1 .. Len(subsets) :
                         LET a  == subsets[i].addresses
                             to == rules[i].to.e
                         IN  /\ Len(to) = Cardinality(Parseable(a))
                             /\ \A j \in Parseable(a) :
                                   LET peer == to[Cardinality({m \in Parseable(a) : m <= j})]
                                   IN  /\ peer.namespaceSelector = {}
                                       /\ peer.podSelector = {}
                                       /\ peer.ipBlock
                                              = {[cidr |-> ParseIP(a[j]).text,
                                                  mask |-> IF ParseIP(a[j]).v4 THEN 32 ELSE 128]}
                             /\ subsets[i] = SubsetD
                                   => /\ to = <<Peer({}, {}, {[cidr |-> "10.0.0.5", mask |-> 32]})>>
                                      /\ rules[i].ports.e = <<[protocol |-> "TCP", port |-> 443]>>]_vars

\* a pass created the API-server policy from two subsets, the second with an
\* address that does not parse
TwoSubsetRulesCreated ==
    \E w \in Workers :
        /\ Len(CreatedBy(w)) >= 3
        /\ endpoints.subsets = <<SubsetTwoPorts, SubsetD>>
        /\ Len(ApiServerRules(CreatedBy(w))) = 2
        /\ Len(ApiServerRules(CreatedBy(w))[1].to.e) = 3
        /\ Len(ApiServerRules(CreatedBy(w))[2].to.e) = 1

\* C18: the egress rule of a subset has one port entry per port of the subset,
\* the i-th with the number and the protocol of the i-th port
PortsCopiedVerbatim ==
    [][\A w \in Workers :
        FullSynthesis(w)
            => LET rules   == ApiServerRules(Emitted(worker'[w].calls))
                   subsets == endpoints.subsets
               IN  \A i \in 1 .. Len(subsets) :
                      /\ i <= Len(rules)
                      /\ rules[i].ports.e
                             = [j \in 1 .. Len(subsets[i].ports) |->
                                   [protocol |-> subsets[i].ports[j].protocol,
                                    port     |-> subsets[i].ports[j].port]]]_vars

\* a pass created a rule whose entry for port 443/TCP carries the protocol of
\* the later port 53/UDP
LaterPortProtocolCopied ==
    \E w \in Workers :
        /\ Len(CreatedBy(w)) >= 3
        /\ endpoints.subsets[1] = SubsetTwoPorts
        /\ ApiServerRules(CreatedBy(w))[1].ports.e
               = <<[protocol |-> "UDP", port |-> 443], [protocol |-> "UDP", port |-> DnsPort]>>

Specs(policies) ==
    [i \in 1 .. Len(policies) |->
        [name |-> policies[i].name, namespace |-> policies[i].namespace,
         spec |-> policies[i].spec]]

RECURSIVE OpsFor(_, _)
OpsFor(calls, obj) ==
    IF calls = <<>> THEN <<>>
    ELSE (IF Head(calls).obj = obj THEN <<Head(calls).op>> ELSE <<>>)
         \o OpsFor(Tail(calls), obj)

\* C20: in a pass of networkCmd none of whose calls fails, a desired policy
\* that does not exist gets a create call and nothing else, one that exists
\* with another spec gets an update call, one that exists with the desired spec
\* gets no call; a pass against the objects a successful pass stored issues no
\* call
ConvergerDiffIdempotent ==
    [][\A w \in Workers :
        LET k       == worker[w].key
            desired == generateNetworkPolicies(nsLabels[k], k, nsUID[k], endpoints.subsets)
            calls   == worker'[w].calls
        IN  (/\ SyncStep(w)
             /\ cmd = "network"
             /\ ~NetworkSkip(nsLabels[k])
             /\ GetEndpoints.found
             /\ \A i \in 1 .. Len(calls) : calls[i].ok)
                => /\ \A i \in 1 .. Len(desired) :
                         LET key   == <<k, desired[i].name>>
                             found == GetPolicy(polCache, key)
                         IN  /\ found = {} => OpsFor(calls, key) = <<"create">>
                             /\ (found # {} /\ found # {desired[i].spec})
                                    => OpsFor(calls, key) = <<"update">>
                             /\ found = {desired[i].spec} => OpsFor(calls, key) = <<>>
                   /\ (\A i \in 1 .. Len(desired) :
                          /\ polApi[<<k, desired[i].name>>] = {StoredSpec(desired[i].spec)}
                          /\ GetPolicy(polCache, <<k, desired[i].name>>)
                                 = {StoredSpec(desired[i].spec)})
                          => calls = <<>>]_vars

\* a pass that returned nil created a policy and updated it at once
CreatedThenUpdated ==
    \E w \in Workers :
        /\ worker[w].pc = "ret"
        /\ cmd = "network"
        /\ ~worker[w].err
        /\ \E i \in 1 .. Len(worker[w].calls) - 1 :
              /\ worker[w].calls[i].op = "create"
              /\ worker[w].calls[i + 1].op = "update"
              /\ worker[w].calls[i + 1].obj = worker[w].calls[i].obj

\* the desired policies of the key of worker w that need a call: the ones the
\* lister does not find, or finds with another spec
NeedsCall(w) ==
    LET k       == worker[w].key
        desired == generateNetworkPolicies(nsLabels[k], k, nsUID[k], endpoints.subsets)
    IN  {i \in 1 .. Len(desired) :
            GetPolicy(polCache, <<k, desired[i].name>>) # {desired[i].spec}}

\* C21: when a create or update call of a pass of networkCmd fails, the pass
\* returns an error and every other desired policy that needs a call still
\* gets one in that pass
ConvergerFailureContinues ==
    [][\A w \in Workers :
        LET k       == worker[w].key
            desired == generateNetworkPolicies(nsLabels[k], k, nsUID[k], endpoints.subsets)
            calls   == worker'[w].calls
        IN  (/\ SyncStep(w)
             /\ cmd = "network"
             /\ \E i \in 1 .. Len(calls) : ~calls[i].ok)
                => /\ worker'[w].err
                   /\ \A i \in NeedsCall(w) :
                         OpsFor(calls, <<k, desired[i].name>>) # <<>>]_vars

\* a pass returned an error after a failed call and left a desired policy
\* that does not exist without a call
FailedCallEndedBatch ==
    \E w \in Workers :
        /\ worker[w].pc = "ret"
        /\ cmd = "network"
        /\ worker[w].err
        /\ worker[w].calls # <<>>
        /\ ~worker[w].calls[Len(worker[w].calls)].ok
        /\ polApi[<<worker[w].key, "default-allow-core-system">>] = {}
        /\ OpsFor(worker[w].calls, <<worker[w].key, "default-allow-core-system">>) = <<>>

\* C22: a pass changes the cached copy of an object only through an update or
\* create call that succeeded: when a call for an object fails, and for every
\* object without a call, the cached object is what it was before the pass
CacheNotMutatedInPlace ==
    [][\A w \in Workers :
        SyncStep(w)
            => LET calls == worker'[w].calls
               IN  /\ LabelCmd
                      => \A d \in Deps :
                            (\A i \in CallsFor(calls, d) : ~calls[i].ok)
                                => depCache'[d] = depCache[d]
                   /\ cmd = "network"
                      => \A key \in PolKeys :
                            (\A i \in CallsFor(calls, key) : ~calls[i].ok)
                                => polCache'[key] = polCache[key]]_vars

\* an update call for a pod or PVC failed, and the cached object carries the
\* propagated value while the object on the API server does not
CacheAheadOfApi ==
    \E w \in Workers :
        /\ worker[w].pc = "ret"
        /\ LabelCmd
        /\ worker[w].err
        /\ \E i \in 1 .. Len(worker[w].calls) :
              LET c == worker[w].calls[i]
              IN  /\ ~c.ok
                  /\ Lbl(depCache[c.obj], FinKey) = c.val
                  /\ Lbl(depApi[c.obj], FinKey) # c.val

\* EnqueueNamespace is called once, for key k
EnqueuedOnce(k) ==
    LET q == Add([queue |-> queue, marked |-> marked], k, Processing)
    IN  /\ enqCalls' = [enqCalls EXCEPT ![k] = Bump(@)]
        /\ queue' = q.queue
        /\ marked' = q.marked

EnqueuedNothing == UNCHANGED <<queue, marked, enqCalls>>

\* C23: an add event of a pod or PVC, and an update event whose resource
\* versions differ, call EnqueueNamespace once for the object's namespace when
\* the namespace lister resolves it; an update event with equal resource
\* versions, and an event whose namespace does not resolve, enqueue nothing
EventAdapter ==
    [][/\ \A d \in Deps :
             DepAddEvent(d)
                 => IF "namespaces" \in synced
                    THEN EnqueuedOnce(DepNs[d])
                    ELSE EnqueuedNothing
       /\ \A d \in Deps, rv \in {1, 2} :
             DepUpdateEvent(d, 1, rv)
                 => IF rv # 1 /\ "namespaces" \in synced
                    THEN EnqueuedOnce(DepNs[d])
                    ELSE EnqueuedNothing]_vars

\* the only enqueue call for n2 so far came while its key was not held, and
\* the key is pending: financeCmd runs, the namespace cache has synced
DependentEventEnqueued ==
    /\ cmd = "finance"
    /\ "namespaces" \in synced
    /\ phase = "started"
    /\ queue = <<"n2">>
    /\ enqCalls["n2"] = 1

\* C24: every egress rule of the API-server policy a pass creates has at least
\* one peer
EgressRulesHavePeers ==
    [][\A w \in Workers :
        (FullSynthesis(w) /\ GetEndpoints.found)
            => LET rules == ApiServerRules(Emitted(worker'[w].calls))
               IN  \A i \in 1 .. Len(rules) : rules[i].to.e # <<>>]_vars

\* a pass created an API-server policy with a rule that has ports and no peer
RuleWithoutPeerCreated ==
    \E w \in Workers :
        /\ Len(CreatedBy(w)) >= 3
        /\ \E i \in 1 .. Len(ApiServerRules(CreatedBy(w))) :
              /\ ApiServerRules(CreatedBy(w))[i].to.e = <<>>
              /\ ApiServerRules(CreatedBy(w))[i].ports.e # <<>>

\* C27: when the lister does not return the Endpoints object of the API
\* server's service, a pass of networkCmd for a namespace without the
\* control-plane label returns an error, issues no call and changes no
\* policy, and the worker schedules the key for a retry
MissingEndpointsFailsPass ==
    [][\A w \in Workers :
        LET k == worker[w].key
        IN  /\ (/\ SyncStep(w)
                /\ cmd = "network"
                /\ ~Has(nsLabels[k], CPKey)
                /\ ~GetEndpoints.found)
                   => /\ worker'[w].err
                      /\ worker'[w].calls = <<>>
                      /\ polApi' = polApi
                      /\ polCache' = polCache
            /\ (/\ FinishStep(w)
                /\ cmd = "network"
                /\ worker[w].err)
                   => k \in delayed']_vars

\* a pass failed for lack of the Endpoints object while a desired policy of
\* the namespace does not exist, and its key waits for the retry
RetryAwaitsEndpoints ==
    /\ cmd = "network"
    /\ "endpoints" \in synced
    /\ ~endpoints.found
    /\ "n1" \in delayed
    /\ requeues["n1"] >= 1
    /\ polApi[<<"n1", "default-allow-core-system">>] = {}

\* C26: a label-propagation pass that a worker runs ends by returning nil or
\* an error: the step that ends it leaves the worker with a returned pass and
\* the process running, also when a listed pod or PVC has no label map
LabelPassReturns ==
    [][\A w \in Workers :
        (/\ LabelCmd
         /\ worker[w].pc = "got"
         /\ (worker'[w] # worker[w] \/ phase' # phase))
            => /\ worker'[w].pc = "ret"
               /\ phase' = phase]_vars

\* the process crashed in a pass that listed a pod or PVC without a label map
CrashedOnNilLabels ==
    /\ LabelCmd
    /\ phase = "crashed"
    /\ \E w \in Workers : worker[w].pc = "got"
    /\ \E d \in Deps : IsNilMap(depCache[d])

\* the names of the policies desired for namespace k
DesiredNames(k) ==
    Range(Names(generateNetworkPolicies(nsLabels[k], k, nsUID[k], endpoints.subsets)))

\* C25: no step removes a policy; a pass of networkCmd issues create and
\* update calls only and leaves every policy that is not desired for the
\* namespace's current labels as it was; after a pass that returned nil every
\* desired policy exists
PoliciesNeverDeleted ==
    [][/\ \A key \in PolKeys : polApi[key] # {} => polApi'[key] # {}
       /\ \A w \in Workers :
             (SyncStep(w) /\ cmd = "network")
                 => LET k     == worker[w].key
                        calls == worker'[w].calls
                    IN  /\ \A i \in 1 .. Len(calls) : calls[i].op \in {"create", "update"}
                        /\ \A key \in PolKeys :
                              (key[1] # k \/ key[2] \notin DesiredNames(k))
                                  => polApi'[key] = polApi[key]
                        /\ (~worker'[w].err /\ ~Has(nsLabels[k], CPKey))
                              => \A n \in DesiredNames(k) : polApi'[<<k, n>>] # {}]_vars

\* a pass returned nil for a namespace that is no system namespace any more
\* and has no allow-same-ns label, and the policies of its earlier labels exist
EarlierPoliciesRemain ==
    \E w \in Workers :
        /\ worker[w].pc = "ret"
        /\ cmd = "network"
        /\ ~worker[w].err
        /\ worker[w].key = "n1"
        /\ nsLabels["n1"] = EmptyLabels
        /\ polApi[<<"n1", "allow-kube-apiserver">>] # {}
        /\ polApi[<<"n1", "allow-same-namespace">>] # {}
        /\ polApi[<<"n1", "optional-allow-kube-apiserver">>] # {}

====
